---- MODULE Spec2Model ----
(* Model of icloud_media_manager.py: the startup metadata-repair pass      *)
(* (update_metadata_in_zip), the batched multithreaded download workflow   *)
(* (process_photos_in_batches / download_and_compress) and the sequential  *)
(* delete workflow (delete_photos_in_batches / delete_photo), over several *)
(* runs of the script (any number of them) that share the files on disk    *)
(* and the remote library.                                                 *)
(* A photo is identified by its filename; filenames are distinct and the   *)
(* remote lists them in ascending order.                                   *)
EXTENDS Integers, Sequences, FiniteSets, TLC

\* ---------------------------------------------------------------- bounds
NumItems == 2

\* the largest max_retries, and the most failing calls, a call of delete_photo
\* is checked with
MaxRetries == 5

\* max_retries=3, the default of delete_photo
DefaultMaxRetries == 3

Ids == 1..NumItems
NoEntry == 0

\* the bytes photo.download().raw.read() returns for a photo
RemoteBytes(id) == 10 + id

Min(a, b) == IF a < b THEN a ELSE b

RECURSIVE Pow2(_)
Pow2(n) == IF n = 0 THEN 1 ELSE 2 * Pow2(n - 1)

Range(s) == {s[k] : k \in 1..Len(s)}

\* api.photos.all: the photos on the remote, in listing order
RECURSIVE Listing(_)
Listing(S) ==
    IF S = {} THEN <<>>
    ELSE LET m == CHOOSE x \in S : \A y \in S : x <= y
         IN  <<m>> \o Listing(S \ {m})

VARIABLES
    \* ---- the remote library and the files under base_dir
    remote,          \* filenames currently on iCloud
    log,             \* downloaded_files.txt: its lines, in order
    logExists,       \* os.path.exists(downloaded_files_path)
    archive,         \* the ZIP at zip_path: filename -> bytes (NoEntry: absent)
    zipExists,       \* os.path.exists(zip_path)
    extracted,       \* temp/extracted/: filename -> bytes (NoEntry: absent)
    updated,         \* temp/updated_<zip>: filename -> bytes
    updatedExists,   \* whether temp/updated_<zip> exists
    failedLog,       \* failed_deletions.log: its lines
    \* ---- one run of the script
    phase,           \* position of the main thread
    action,          \* the menu choice "1", "2" or "3", as 1, 2, 3
    batch_size,
    max_workers,
    photos,          \* the listing the running workflow iterates
    downloaded_files,\* the set loaded at line 179
    pos,             \* items consumed from photo_iter
    batch,           \* the current batch (filenames, in order)
    cur,             \* index in batch of the next photo to delete
    failed_files,    \* delete workflow: filenames that could not be deleted
    \* ---- the download workers of the current run, per filename
    wpc,             \* position of the task of a photo
    fails,           \* calls of photo.download() that raised, in this run
    attempts,        \* calls of photo.download() made in this run
    sleeps,          \* durations of the time.sleep calls of the item's worker
    dl_outcome,      \* the (filename, success) the task returned
    dl_error,        \* the last statement of the task that raised: "utime"
                     \* (caught at line 31), "download", "zip" or "log"
                     \* (caught at line 168)
    progress,        \* progress_bar.n: the update(1) calls of the workflow
    zip_lock,        \* holder of zip_lock (0: free)
    \* ---- the delete workflow of the current run
    del_outcome,     \* result of delete_photo, per filename
    \* ---- one call of delete_photo, taken alone
    del_pc,          \* "idle", "called" or "returned"
    del_photo,       \* the photo passed to the call
    del_k,           \* calls of photo.delete() that raise before one succeeds
    max_retries,     \* the parameter of the call
    del_result,      \* the value the call returned
    del_attempts,    \* calls of photo.delete() the call made
    del_sleeps,      \* durations of the time.sleep calls of the call
    \* ---- history
    written,         \* filenames whose archive write has completed and
                     \* that the log or the ZIP still holds
    prevGood,        \* this run is a download workflow and the previous run
                     \* was a completed one in which every item succeeded
    prevArchive      \* the archive at the end of that run, if prevGood

persistent == <<remote, log, logExists, archive, zipExists, extracted,
                updated, updatedExists, failedLog>>
mainvars == <<phase, action, batch_size, max_workers, photos,
              downloaded_files, pos, batch, cur, failed_files>>
workervars == <<wpc, fails, attempts, sleeps, dl_outcome, dl_error, zip_lock>>
callvars == <<del_pc, del_photo, del_k, max_retries, del_result,
              del_attempts, del_sleeps>>
delvars == <<del_outcome, callvars>>
histvars == <<written, prevGood, prevArchive>>
vars == <<persistent, mainvars, workervars, delvars, histvars, progress>>

Empty == [id \in Ids |-> NoEntry]
None == [id \in Ids |-> "none"]
Zero == [id \in Ids |-> 0]
NoSleeps == [id \in Ids |-> <<>>]

\* nothing has run yet: the library is full and base_dir is empty
NoRun ==
    /\ remote = Ids
    /\ log = <<>> /\ logExists = FALSE
    /\ archive = Empty /\ zipExists = FALSE
    /\ extracted = Empty
    /\ updated = Empty /\ updatedExists = FALSE
    /\ failedLog = <<>>
    /\ phase = "off" /\ action = 1
    /\ batch_size = 1 /\ max_workers = 1
    /\ photos = <<>> /\ downloaded_files = {} /\ pos = 0
    /\ batch = <<>> /\ cur = 0 /\ failed_files = <<>>
    /\ wpc = None /\ fails = Zero /\ attempts = Zero /\ sleeps = NoSleeps
    /\ dl_outcome = None /\ dl_error = None /\ zip_lock = 0 /\ progress = 0
    /\ del_outcome = None
    /\ written = {} /\ prevGood = FALSE /\ prevArchive = Empty

Init ==
    /\ NoRun
    /\ del_pc = "idle" /\ del_photo = 0 /\ del_k = 0 /\ max_retries = 0
    /\ del_result = FALSE /\ del_attempts = 0 /\ del_sleeps = <<>>

Running == phase \notin {"off", "done", "crashed"}

\* ------------------------------------------------------------ __main__
\* lines 227-270: the script starts; the prompts give the parameters (a
\* worker limit above the batch size behaves as one equal to it)
StartRun ==
    /\ ~Running
    /\ \E a \in 1..3, b \in 1..NumItems :
          \E w \in 1..b :
             /\ action' = a /\ batch_size' = b /\ max_workers' = w
    /\ phase' = "repair"
    /\ photos' = <<>> /\ downloaded_files' = {} /\ pos' = 0
    /\ batch' = <<>> /\ cur' = 0 /\ failed_files' = <<>>
    /\ wpc' = None /\ fails' = Zero /\ attempts' = Zero /\ sleeps' = NoSleeps
    /\ dl_outcome' = None /\ dl_error' = None /\ zip_lock' = 0 /\ progress' = 0
    /\ del_outcome' = None
    /\ UNCHANGED callvars
    /\ LET good == /\ phase = "done" /\ action = 1 /\ action' = 1
                    /\ \A id \in Range(photos) : dl_outcome[id] = "ok"
       IN  /\ prevGood' = good
           /\ prevArchive' = IF good THEN archive ELSE Empty
    /\ UNCHANGED <<persistent, written>>

\* ----------------------------------------------- adjust_file_metadata
\* the photos whose created attribute time.mktime rejects (line 28): the
\* times of their files cannot be set
BadCreated == {1}

\* variant: what time.mktime raises reaches the caller
adjust_file_metadataM(id) == id \notin BadCreated

\* lines 26-32: whether the call for the file of photo id returns normally;
\* line 31 catches what lines 28-29 raise
adjust_file_metadata(id) == TRUE

\* --------------------------------------------- update_metadata_in_zip
\* lines 107-118: the extraction loop; an entry is extracted when its photo
\* is in the remote listing and its filename in the completion log; a
\* filename the ZIP does not hold raises KeyError, which line 117 catches.
\* The file is extracted (line 112) before its times are set (line 116): a
\* failure to set them, caught at line 31, leaves it extracted and the loop
\* goes on
ExtractAll(ext, zip, listed, logged) ==
    [id \in Ids |-> IF id \in listed /\ id \in logged /\ zip[id] # NoEntry
                    THEN zip[id]
                    ELSE ext[id]]

\* lines 122-127: the closed new ZIP holds every file found under
\* temp/extracted
RebuiltZip(ext) == ext

\* lines 92-118
UpdateMetadataExtract ==
    /\ phase = "repair"
    /\ IF ~logExists \/ ~zipExists
       THEN /\ phase' = "dispatch"
            /\ UNCHANGED extracted
       ELSE /\ extracted' = ExtractAll(extracted, archive, remote, Range(log))
            /\ phase' = "rebuild"
    /\ UNCHANGED <<remote, log, logExists, archive, zipExists, updated,
                   updatedExists, failedLog>>
    /\ UNCHANGED <<action, batch_size, max_workers, photos,
                   downloaded_files, pos, batch, cur, failed_files>>
    /\ UNCHANGED <<workervars, delvars, histvars, progress>>

\* the files of temp/extracted the new ZIP does not hold yet
ToWrite(ext, upd) == {id \in Ids : ext[id] # NoEntry /\ upd[id] = NoEntry}

\* variant: the new ZIP is opened at zip_path
UpdateMetadataRebuildM ==
    /\ phase = "rebuild"
    /\ archive' = Empty
    /\ phase' = IF ToWrite(extracted, Empty) = {} THEN "replace" ELSE "write"
    /\ UNCHANGED <<remote, log, logExists, updated, updatedExists, zipExists,
                   extracted, failedLog>>
    /\ UNCHANGED <<action, batch_size, max_workers, photos,
                   downloaded_files, pos, batch, cur, failed_files>>
    /\ UNCHANGED <<workervars, delvars, histvars, progress>>

\* lines 121-122: the new ZIP is opened in mode "w" at updated_zip_path,
\* which creates it empty or truncates the one an interrupted pass left
UpdateMetadataRebuild ==
    /\ phase = "rebuild"
    /\ updated' = Empty
    /\ updatedExists' = TRUE
    /\ phase' = IF ToWrite(extracted, Empty) = {} THEN "replace" ELSE "write"
    /\ UNCHANGED <<remote, log, logExists, archive, zipExists, extracted,
                   failedLog>>
    /\ UNCHANGED <<action, batch_size, max_workers, photos,
                   downloaded_files, pos, batch, cur, failed_files>>
    /\ UNCHANGED <<workervars, delvars, histvars, progress>>

\* lines 123-127: os.walk yields the files in an order of its own; one file
\* is written to the new ZIP, which is closed after the last one
UpdateMetadataWrite(id) ==
    /\ phase = "write"
    /\ id \in ToWrite(extracted, updated)
    /\ updated' = [updated EXCEPT ![id] = extracted[id]]
    /\ phase' = IF ToWrite(extracted, updated') = {} THEN "replace" ELSE "write"
    /\ UNCHANGED <<remote, log, logExists, archive, zipExists, extracted,
                   updatedExists, failedLog>>
    /\ UNCHANGED <<action, batch_size, max_workers, photos,
                   downloaded_files, pos, batch, cur, failed_files>>
    /\ UNCHANGED <<workervars, delvars, histvars, progress>>

\* lines 129-131: os.replace moves the new ZIP over the old one; the history
\* forgets an unlogged filename whose entry is gone with the old ZIP
UpdateMetadataReplace ==
    /\ phase = "replace"
    /\ archive' = updated
    /\ updated' = Empty
    /\ updatedExists' = FALSE
    /\ phase' = "dispatch"
    /\ UNCHANGED <<remote, log, logExists, zipExists, extracted, failedLog>>
    /\ UNCHANGED <<action, batch_size, max_workers, photos,
                   downloaded_files, pos, batch, cur, failed_files>>
    /\ written' = {id \in written : id \in Range(log) \/ updated[id] # NoEntry}
    /\ UNCHANGED <<workervars, delvars, prevGood, prevArchive, progress>>

\* lines 279-288: the selected action
Dispatch ==
    /\ phase = "dispatch"
    /\ phase' = IF action = 2 THEN "del_start" ELSE "dl_start"
    /\ UNCHANGED persistent
    /\ UNCHANGED <<action, batch_size, max_workers, photos,
                   downloaded_files, pos, batch, cur, failed_files>>
    /\ UNCHANGED <<workervars, delvars, histvars, progress>>

\* ------------------------------------------ process_photos_in_batches
\* lines 14-18
load_downloaded_files == IF logExists THEN Range(log) ELSE {}

\* lines 175-183
ProcessStart ==
    /\ phase = "dl_start"
    /\ photos' = Listing(remote)
    /\ downloaded_files' = load_downloaded_files
    /\ pos' = 0
    /\ batch' = <<>>
    /\ phase' = "dl_fetch"
    /\ UNCHANGED persistent
    /\ UNCHANGED <<action, batch_size, max_workers, cur, failed_files>>
    /\ progress' = 0
    /\ UNCHANGED <<workervars, delvars, histvars>>

\* variant: the rest of the listing is taken as one batch
NextBatchM == SubSeq(photos, pos + 1, Len(photos))

\* lines 186-191: up to batch_size photos taken from photo_iter
NextBatch == SubSeq(photos, pos + 1, Min(pos + batch_size, Len(photos)))

\* variant: the next batch is fetched without waiting for the pool
BatchDrainedM == TRUE

\* the with-block of line 197 ends (shutdown(wait=True)) and the loop of line
\* 202 has consumed every future: every task of the batch has returned
BatchDrained == \A id \in Range(batch) : wpc[id] = "done"

\* lines 184-201: fetch the next batch and submit a task per photo
ProcessFetch ==
    /\ phase = "dl_fetch"
    /\ BatchDrained
    /\ IF NextBatch = <<>>
       THEN /\ phase' = IF action = 3 THEN "del_start" ELSE "done"
            /\ batch' = <<>>
            /\ UNCHANGED <<pos, wpc>>
       ELSE /\ batch' = NextBatch
            /\ pos' = pos + Len(NextBatch)
            /\ wpc' = [id \in Ids |-> IF id \in Range(NextBatch)
                                      THEN "queued" ELSE wpc[id]]
            /\ UNCHANGED phase
    /\ UNCHANGED persistent
    /\ UNCHANGED <<action, batch_size, max_workers, photos,
                   downloaded_files, cur, failed_files>>
    /\ UNCHANGED <<fails, attempts, sleeps, dl_outcome, dl_error, zip_lock>>
    /\ UNCHANGED <<delvars, histvars, progress>>

\* ---------------------------------------------- download_and_compress
\* a ThreadPoolExecutor(max_workers) runs at most max_workers tasks at a time
Executing == {id \in Ids : wpc[id] \notin {"none", "queued", "done"}}
\* variant: a thread per submitted task
CanStartM == TRUE
CanStart == Cardinality(Executing) < max_workers

\* variant: the already-downloaded check is missing
AlreadyDownloadedM(id) == FALSE

\* line 137
AlreadyDownloaded(id) == id \in downloaded_files

\* variant: the ZIP is opened without taking the lock
ZipLockFreeM == TRUE

\* line 153: with zip_lock
ZipLockFree == zip_lock = 0

\* variant: the except clause reports a success
FailureOutcomeM == "ok"

\* lines 168-171: the except clause
FailureOutcome == "fail"

\* lines 166-167
Return(id) ==
    /\ wpc' = [wpc EXCEPT ![id] = "done"]
    /\ dl_outcome' = [dl_outcome EXCEPT ![id] = "ok"]
    /\ progress' = progress + 1

\* an exception raised by statement e reaches lines 168-171
Raise(id, e) ==
    /\ wpc' = [wpc EXCEPT ![id] = "done"]
    /\ dl_outcome' = [dl_outcome EXCEPT ![id] = FailureOutcome]
    /\ dl_error' = [dl_error EXCEPT ![id] = e]
    /\ progress' = progress + 1

\* variant: a failed photo.download() is retried, up to max_retries calls,
\* after a sleep of 2^attempt (the loop of delete_photo); k is the number of
\* calls that fail before one succeeds
WorkerStartM(id) ==
    /\ phase = "dl_fetch"
    /\ wpc[id] = "queued"
    /\ CanStart
    /\ IF AlreadyDownloaded(id)
       THEN /\ Return(id)
            /\ UNCHANGED <<fails, attempts, sleeps, dl_error>>
       ELSE \E k \in 0..DefaultMaxRetries :
               /\ fails' = [fails EXCEPT ![id] = k]
               /\ attempts' = [attempts EXCEPT
                                  ![id] = Min(k + 1, DefaultMaxRetries)]
               /\ sleeps' = [sleeps EXCEPT
                                ![id] = [a \in 1..Min(k, DefaultMaxRetries - 1)
                                            |-> Pow2(a)]]
               /\ IF k < DefaultMaxRetries
                  THEN /\ wpc' = [wpc EXCEPT ![id] = "lockwait"]
                       /\ UNCHANGED <<dl_outcome, dl_error, progress>>
                  ELSE Raise(id, "download")
    /\ UNCHANGED zip_lock
    /\ UNCHANGED <<persistent, mainvars, delvars, histvars>>

\* a pool thread takes the task: the check of lines 136-140, then one call of
\* photo.download() (142-143), which raises or returns the bytes; the bytes
\* go to the temporary file, whose times adjust_file_metadata sets or fails
\* to set (145-150)
WorkerStart(id) ==
    /\ phase = "dl_fetch"
    /\ wpc[id] = "queued"
    /\ CanStart
    /\ IF AlreadyDownloaded(id)
       THEN /\ Return(id)
            /\ UNCHANGED <<fails, attempts, dl_error>>
       ELSE /\ attempts' = [attempts EXCEPT ![id] = @ + 1]
            /\ \E ok \in BOOLEAN :
                  IF ~ok
                  THEN /\ fails' = [fails EXCEPT ![id] = @ + 1]
                       /\ Raise(id, "download")
                  ELSE IF adjust_file_metadata(id)
                  THEN /\ wpc' = [wpc EXCEPT ![id] = "lockwait"]
                       /\ dl_error' = [dl_error EXCEPT
                                          ![id] = IF id \in BadCreated
                                                  THEN "utime" ELSE @]
                       /\ UNCHANGED <<fails, dl_outcome, progress>>
                  ELSE /\ Raise(id, "utime")
                       /\ UNCHANGED fails
    /\ UNCHANGED <<sleeps, zip_lock>>
    /\ UNCHANGED <<persistent, mainvars, delvars, histvars>>

\* lines 153-154: take zip_lock and open the ZIP in mode "a", which creates it
WorkerZipOpen(id) ==
    /\ phase = "dl_fetch"
    /\ wpc[id] = "lockwait"
    /\ ZipLockFree
    /\ zip_lock' = id
    /\ zipExists' = TRUE
    /\ wpc' = [wpc EXCEPT ![id] = "inzip"]
    /\ UNCHANGED <<fails, attempts, sleeps, dl_outcome, dl_error, progress>>
    /\ UNCHANGED <<remote, log, logExists, archive, extracted, updated,
                   updatedExists, failedLog>>
    /\ UNCHANGED <<mainvars, delvars, histvars>>

\* variant: an error of the archive write is swallowed and the worker goes on
\* to the log
WorkerZipWriteM(id) ==
    /\ phase = "dl_fetch"
    /\ wpc[id] = "inzip"
    /\ zip_lock' = 0
    /\ \E zipOk \in BOOLEAN :
          /\ archive' = IF zipOk THEN [archive EXCEPT ![id] = RemoteBytes(id)]
                        ELSE archive
          /\ written' = IF zipOk THEN written \cup {id} ELSE written
    /\ logExists' = TRUE
    /\ wpc' = [wpc EXCEPT ![id] = "inlog"]
    /\ UNCHANGED <<dl_outcome, dl_error, progress>>
    /\ UNCHANGED <<fails, attempts, sleeps>>
    /\ UNCHANGED <<remote, log, zipExists, extracted, updated, updatedExists,
                   failedLog>>
    /\ UNCHANGED <<mainvars, delvars, prevGood, prevArchive>>

\* lines 155-156: write the entry, close the ZIP, release the lock, remove the
\* temporary file; then lines 164 and 22: append_to_downloaded_files opens the
\* log in mode "a", which creates it. An I/O error of the archive write leaves
\* the entry unwritten; either error goes to the except clause.
WorkerZipWrite(id) ==
    /\ phase = "dl_fetch"
    /\ wpc[id] = "inzip"
    /\ zip_lock' = 0
    /\ \E zipOk \in BOOLEAN, logOk \in BOOLEAN :
          IF ~zipOk
          THEN /\ Raise(id, "zip")
               /\ UNCHANGED <<archive, written, logExists>>
          ELSE /\ archive' = [archive EXCEPT ![id] = RemoteBytes(id)]
               /\ written' = written \cup {id}
               /\ IF logOk
                  THEN /\ logExists' = TRUE
                       /\ wpc' = [wpc EXCEPT ![id] = "inlog"]
                       /\ UNCHANGED <<dl_outcome, dl_error, progress>>
                  ELSE /\ Raise(id, "log")
                       /\ UNCHANGED logExists
    /\ UNCHANGED <<fails, attempts, sleeps>>
    /\ UNCHANGED <<remote, log, zipExists, extracted, updated, updatedExists,
                   failedLog>>
    /\ UNCHANGED <<mainvars, delvars, prevGood, prevArchive>>

\* variant: the log is opened in mode "w"
AppendLineM(lines, id) == <<id>>

\* lines 22-23: the log is opened in mode "a" and the line written at its end
AppendLine(lines, id) == Append(lines, id)

\* variant: the worker also adds the filename to the set the workers consult
WorkerLogWriteM(id) ==
    /\ phase = "dl_fetch"
    /\ wpc[id] = "inlog"
    /\ log' = AppendLine(log, id)
    /\ downloaded_files' = downloaded_files \cup {id}
    /\ Return(id)
    /\ UNCHANGED <<fails, attempts, sleeps, dl_error, zip_lock>>
    /\ UNCHANGED <<remote, logExists, archive, zipExists, extracted, updated,
                   updatedExists, failedLog>>
    /\ UNCHANGED <<phase, action, batch_size, max_workers, photos, pos, batch,
                   cur, failed_files>>
    /\ UNCHANGED <<delvars, histvars>>

\* line 23: write the line and close the log; then lines 166-167
WorkerLogWrite(id) ==
    /\ phase = "dl_fetch"
    /\ wpc[id] = "inlog"
    /\ log' = AppendLine(log, id)
    /\ Return(id)
    /\ UNCHANGED <<fails, attempts, sleeps, dl_error, zip_lock>>
    /\ UNCHANGED <<remote, logExists, archive, zipExists, extracted, updated,
                   updatedExists, failedLog>>
    /\ UNCHANGED <<mainvars, delvars, histvars>>

\* --------------------------------------------------------- delete_photo
\* lines 35-49, for a photo whose delete() raises k times before it succeeds:
\* the result, the number of calls and the sleeps
\* variant: a backoff that grows by two seconds per attempt
BackoffM(attempt) == 2 * attempt

\* line 44
Backoff(attempt) == Pow2(attempt)

RECURSIVE DeleteFrom(_, _, _, _)
DeleteFrom(attempt, k, retries, slept) ==
    IF attempt > retries
    THEN [ok |-> FALSE, calls |-> attempt - 1, slept |-> slept]
    ELSE IF attempt > k
    THEN [ok |-> TRUE, calls |-> attempt, slept |-> slept]
    ELSE IF attempt < retries
    THEN DeleteFrom(attempt + 1, k, retries,
                    Append(slept, Backoff(attempt)))
    ELSE [ok |-> FALSE, calls |-> attempt, slept |-> slept]

delete_photo(k, retries) == DeleteFrom(1, k, retries, <<>>)

\* one call delete_photo(photo, max_retries), for every photo, every
\* max_retries >= 1 and every number of failing calls
InitDel ==
    /\ NoRun
    /\ del_pc = "called"
    /\ del_photo \in Ids
    /\ del_k \in 0..MaxRetries
    /\ max_retries \in 1..MaxRetries
    /\ del_result = FALSE /\ del_attempts = 0 /\ del_sleeps = <<>>

DeletePhotoCall ==
    /\ del_pc = "called"
    /\ LET r == delete_photo(del_k, max_retries)
       IN  /\ remote' = IF r.ok THEN remote \ {del_photo} ELSE remote
           /\ del_result' = r.ok
           /\ del_attempts' = r.calls
           /\ del_sleeps' = r.slept
    /\ del_pc' = "returned"
    /\ UNCHANGED <<del_photo, del_k, max_retries, del_outcome>>
    /\ UNCHANGED <<log, logExists, archive, zipExists, extracted, updated,
                   updatedExists, failedLog>>
    /\ UNCHANGED <<mainvars, workervars, histvars, progress>>

NextDel == DeletePhotoCall
DelSpec == InitDel /\ [][NextDel]_vars

\* ------------------------------------------- delete_photos_in_batches
\* lines 54-60
DeleteStart ==
    /\ phase = "del_start"
    /\ photos' = Listing(remote)
    /\ pos' = 0
    /\ batch' = <<>>
    /\ cur' = 0
    /\ failed_files' = <<>>
    /\ phase' = "del_fetch"
    /\ UNCHANGED persistent
    /\ UNCHANGED <<action, batch_size, max_workers, downloaded_files>>
    /\ progress' = 0
    /\ UNCHANGED <<workervars, delvars, histvars>>

\* lines 62-72
DeleteFetch ==
    /\ phase = "del_fetch"
    /\ IF NextBatch = <<>>
       THEN /\ phase' = "del_log"
            /\ batch' = <<>>
            /\ UNCHANGED <<pos, cur>>
       ELSE /\ batch' = NextBatch
            /\ pos' = pos + Len(NextBatch)
            /\ cur' = 1
            /\ phase' = "del_batch"
    /\ UNCHANGED persistent
    /\ UNCHANGED <<action, batch_size, max_workers, photos,
                   downloaded_files, failed_files>>
    /\ UNCHANGED <<workervars, delvars, histvars, progress>>

\* variant: a failed deletion ends the workflow
ContinueBatchM(r) == r.ok

\* whether the loop of line 75 goes on after a photo with result r
ContinueBatch(r) == TRUE

\* lines 75-79: one photo of the batch
DeleteOne ==
    /\ phase = "del_batch"
    /\ \E k \in 0..DefaultMaxRetries :
          LET id == batch[cur]
              r == delete_photo(k, DefaultMaxRetries)
          IN  /\ remote' = IF r.ok THEN remote \ {id} ELSE remote
              /\ del_outcome' = [del_outcome EXCEPT
                                    ![id] = IF r.ok THEN "ok" ELSE "fail"]
              /\ failed_files' = IF r.ok THEN failed_files
                                 ELSE Append(failed_files, id)
              /\ IF ContinueBatch(r)
                 THEN IF cur < Len(batch)
                      THEN /\ cur' = cur + 1
                           /\ UNCHANGED phase
                      ELSE /\ cur' = 0
                           /\ phase' = "del_fetch"
                 ELSE /\ cur' = 0
                      /\ phase' = "del_log"
    /\ UNCHANGED <<log, logExists, archive, zipExists, extracted, updated,
                   updatedExists, failedLog>>
    /\ UNCHANGED <<action, batch_size, max_workers, photos,
                   downloaded_files, pos, batch>>
    /\ progress' = progress + 1
    /\ UNCHANGED <<workervars, callvars, histvars>>

\* lines 81-87: the failure log is written only when a deletion failed
DeleteLog ==
    /\ phase = "del_log"
    /\ failedLog' = IF failed_files # <<>> THEN failed_files ELSE failedLog
    /\ phase' = "done"
    /\ UNCHANGED <<remote, log, logExists, archive, zipExists, extracted,
                   updated, updatedExists>>
    /\ UNCHANGED <<action, batch_size, max_workers, photos,
                   downloaded_files, pos, batch, cur, failed_files>>
    /\ UNCHANGED <<workervars, delvars, histvars, progress>>

\* --------------------------------------------------------------- crash
\* the process is killed at any point of a run; the files stay as they are,
\* what the process held in memory is lost
Crash ==
    /\ Running
    /\ phase' = "crashed"
    /\ photos' = <<>> /\ downloaded_files' = {} /\ pos' = 0
    /\ batch' = <<>> /\ cur' = 0 /\ failed_files' = <<>>
    /\ wpc' = None /\ fails' = Zero /\ attempts' = Zero /\ sleeps' = NoSleeps
    /\ dl_outcome' = None /\ dl_error' = None /\ zip_lock' = 0 /\ progress' = 0
    /\ del_outcome' = None
    /\ UNCHANGED callvars
    /\ action' = 1 /\ batch_size' = 1 /\ max_workers' = 1
    /\ UNCHANGED persistent
    /\ UNCHANGED histvars

Next ==
    \/ StartRun
    \/ UpdateMetadataExtract
    \/ UpdateMetadataRebuild
    \/ \E id \in Ids : UpdateMetadataWrite(id)
    \/ UpdateMetadataReplace
    \/ Dispatch
    \/ ProcessStart
    \/ ProcessFetch
    \/ \E id \in Ids : WorkerStart(id)
    \/ \E id \in Ids : WorkerZipOpen(id)
    \/ \E id \in Ids : WorkerZipWrite(id)
    \/ \E id \in Ids : WorkerLogWrite(id)
    \/ DeleteStart
    \/ DeleteFetch
    \/ DeleteOne
    \/ DeleteLog
    \/ Crash

Spec == Init /\ [][Next]_vars

\* the steps of a run
RunStep ==
    \/ UpdateMetadataExtract
    \/ UpdateMetadataRebuild
    \/ \E id \in Ids : UpdateMetadataWrite(id)
    \/ UpdateMetadataReplace
    \/ Dispatch
    \/ ProcessStart
    \/ ProcessFetch
    \/ \E id \in Ids : WorkerStart(id)
    \/ \E id \in Ids : WorkerZipOpen(id)
    \/ \E id \in Ids : WorkerZipWrite(id)
    \/ \E id \in Ids : WorkerLogWrite(id)
    \/ DeleteStart
    \/ DeleteFetch
    \/ DeleteOne
    \/ DeleteLog

\* runs that nothing kills: the main thread and the pool threads keep being
\* scheduled, every remote call and every sleep returns
NextLive == StartRun \/ RunStep
LiveSpec == Init /\ [][NextLive]_vars /\ WF_vars(RunStep)

\* ================================================================ claims
Logged == Range(log)
PosOf(id) == CHOOSE k \in 1..Len(photos) : photos[k] = id
\* the number of the batch (from 1) the photo at position k belongs to
BatchOf(k) == ((k - 1) \div batch_size) + 1
Submitted(id) == wpc[id] # "none"
InZip == {id \in Ids : wpc[id] = "inzip"}
InRepair == phase \in {"repair", "rebuild", "write", "replace"}

\* C1: archive round-trip: in every reachable state, every identifier in the
\* completion log has an archive entry whose bytes are the bytes the download
\* returned for it.
C1_ArchiveRoundTrip ==
    \A id \in Logged : archive[id] = RemoteBytes(id)

\* C2: an identifier is in the completion log only if its archive write (of
\* this run or an earlier one) has completed, in every state, also after a
\* crash or an exception.
C2_LogAfterArchiveWrite ==
    Logged \subseteq written

\* C2 witness: a run was cut by a crash after a worker had logged an item
C2_Witness ==
    /\ phase = "crashed"
    /\ log # <<>>
    /\ Logged \subseteq written

C4_BoundedConcurrency ==
    Cardinality(Executing) <= max_workers

\* C4 witness: a batch larger than the worker limit, the pool full and a task
\* of the batch waiting in the queue
C4_Witness ==
    /\ phase = "dl_fetch"
    /\ max_workers < Len(batch)
    /\ Cardinality(Executing) = max_workers
    /\ \E id \in Range(batch) : wpc[id] = "queued"

\* C5: at most one worker holds the container open for writing, it is the
\* holder of zip_lock, and the repair pass never reads or replaces the
\* container while a worker has it open.
C5_ArchiveWritesSerialized ==
    /\ Cardinality(InZip) <= 1
    /\ \A id \in InZip : zip_lock = id
    /\ InRepair => InZip = {}

\* C5 witness: one worker has the container open while another waits for the
\* lock
C5_Witness ==
    \E a \in Ids, b \in Ids :
        /\ a # b
        /\ wpc[a] = "inzip"
        /\ wpc[b] = "lockwait"

\* the lines of the log that are id
RECURSIVE Count(_, _)
Count(seq, id) ==
    IF seq = <<>> THEN 0
    ELSE (IF Head(seq) = id THEN 1 ELSE 0) + Count(Tail(seq), id)

\* the sleeps 2, 4, ..., 2^k
Backoffs(k) == [a \in 1..k |-> Pow2(a)]

\* the task of id has returned
Returned(id) == wpc[id] = "done"

\* C6: dedup: for an identifier that was in the completion log when the
\* download workflow started, no step of the workflow calls the remote
\* download, writes its archive entry or appends it to the log, and its task
\* returns success.
C6_Dedup ==
    [][\A id \in downloaded_files :
          /\ attempts'[id] = attempts[id]
          /\ archive'[id] = archive[id]
          /\ Count(log', id) = Count(log, id)
          /\ (wpc'[id] = "done" => dl_outcome'[id] = "ok")
          /\ wpc'[id] \in {"none", "queued", "done"}]_vars

\* C6 witness: the task of an already-logged item has returned success
\* without a download
C6_Witness ==
    \E id \in downloaded_files :
        /\ wpc[id] = "done"
        /\ dl_outcome[id] = "ok"
        /\ attempts[id] = 0

\* C7: idempotent resume: a completed download run that follows a completed
\* download run in which every item succeeded makes no remote download and
\* ends with the archive as the earlier run left it.
C7_IdempotentResume ==
    (phase = "done" /\ action = 1 /\ prevGood)
        => /\ attempts = Zero
           /\ archive = prevArchive

C9_ExhaustedRetries ==
    \A id \in Ids :
        /\ (Returned(id) /\ attempts[id] > 0 /\ fails[id] = attempts[id])
              => /\ dl_outcome[id] = "fail"
                 /\ id \notin Logged
        /\ (Returned(id) /\ id \notin downloaded_files)
              => attempts[id] > 0

\* C9 witness: a download run has ended with an item whose attempts all
\* failed reported as failed and absent from the log
C9_Witness ==
    /\ phase = "done"
    /\ \E id \in Ids :
          /\ Returned(id)
          /\ attempts[id] > 0
          /\ fails[id] = attempts[id]
          /\ dl_outcome[id] = "fail"
          /\ id \notin Logged

DownloadEnded == phase = "del_start" \/ (phase = "done" /\ action = 1)
DeleteEnded == phase = "del_log" \/ (phase = "done" /\ action \in {2, 3})

\* when a download or a delete workflow ends, every listed item has produced
\* exactly one outcome
OneOutcomePerItem ==
    /\ DownloadEnded
          => /\ \A id \in Range(photos) : dl_outcome[id] # "none"
             /\ progress = Len(photos)
    /\ DeleteEnded
          => /\ \A id \in Range(photos) : del_outcome[id] # "none"
             /\ progress = Len(photos)

\* C10: failure isolation: whatever items fail to download or to delete, the
\* run terminates, and when a download or a delete workflow ends every listed
\* item has produced exactly one outcome.
C10_FailureIsolation ==
    /\ []OneOutcomePerItem
    /\ (phase = "repair") ~> (phase = "done")

\* C10 witness: a download-then-delete run has ended in which the first item
\* failed to download and to delete and a later item was downloaded and
\* deleted
C10_Witness ==
    /\ phase = "done"
    /\ action = 3
    /\ Len(photos) >= 2
    /\ dl_outcome[photos[1]] = "fail"
    /\ del_outcome[photos[1]] = "fail"
    /\ dl_outcome[photos[2]] = "ok"
    /\ del_outcome[photos[2]] = "ok"

\* the step of the repair pass that swaps the rebuilt ZIP in
Swap == phase = "replace" /\ phase' = "dispatch"

\* C11: the repair pass keeps every logged entry: after the pass the
\* container holds, for every identifier that was in the log and in the
\* container before it, an entry with the same bytes, whether or not the
\* remote still lists the item and whatever the scratch area held.
C11_RepairKeepsLoggedEntries ==
    [][Swap => \A id \in Logged :
                  archive[id] # NoEntry => archive'[id] = archive[id]]_vars

\* C12: the replacement of the container is all-or-nothing: no step of the
\* repair pass before the final swap, and no crash, changes the container,
\* and the swap installs the completely rebuilt archive.
C12_AllOrNothingReplace ==
    [][/\ (InRepair /\ ~Swap) => (archive' = archive /\ zipExists' = zipExists)
       /\ Swap => archive' = RebuiltZip(extracted)]_vars

\* C12 witness: a run was killed while the new ZIP was partly written, and
\* the container still holds an entry the new ZIP lacks
C12_Witness ==
    /\ phase = "crashed"
    /\ updatedExists
    /\ updated # RebuiltZip(extracted)
    /\ \E id \in Ids : archive[id] # NoEntry /\ updated[id] = NoEntry

\* the filenames this run's workers have downloaded, archived and logged
RecordedInRun == {id \in Ids : attempts[id] > 0 /\ dl_outcome[id] = "ok"}

InLog == {id \in Ids : wpc[id] = "inlog"}

\* C14: at most one worker at a time is inside the append to the completion
\* log.
C14_LedgerMutex ==
    Cardinality(InLog) <= 1

\* C15: after every completed delete workflow the failure log holds exactly
\* the filenames whose deletion failed in that run, in listing order.
C15_FailureLogOfThisRun ==
    (phase = "done" /\ action \in {2, 3}) => failedLog = failed_files

\* C16: the completion log is append-only: every step of every run leaves the
\* earlier sequence of lines a prefix of the later one, and never removes the
\* file.
C16_LogAppendOnly ==
    [][/\ Len(log') >= Len(log)
       /\ SubSeq(log', 1, Len(log)) = log
       /\ logExists => logExists']_vars

\* C16 witness: a download run that started, after its repair pass, with a
\* non-empty log has appended to it
C16_Witness ==
    /\ phase = "dl_fetch"
    /\ zipExists
    /\ Len(log) > Cardinality(downloaded_files)
    /\ Cardinality(downloaded_files) >= 1

\* lines 184-194 and 62-72: the sizes of the batches the loop takes from a
\* listing of n photos
RECURSIVE BatchSizes(_, _)
BatchSizes(n, size) ==
    IF n = 0 THEN <<>>
    ELSE <<Min(size, n)>> \o BatchSizes(n - Min(size, n), size)

InWorkflow == phase \in {"dl_fetch", "del_fetch", "del_batch"}

C18_MetadataFailureNonFatal ==
    /\ \A id \in Ids :
          (Returned(id) /\ dl_error[id] = "utime")
              => /\ dl_outcome[id] = "ok"
                 /\ id \in Logged
                 /\ archive[id] = RemoteBytes(id)
    /\ phase \in {"rebuild", "write", "replace"}
          => \A id \in remote \cap Logged :
                archive[id] # NoEntry => extracted[id] = archive[id]

\* C18 witness: the task of an item whose times could not be set has
\* returned success, the item archived and logged
C18_Witness ==
    \E id \in Ids :
        /\ Returned(id)
        /\ dl_error[id] = "utime"
        /\ dl_outcome[id] = "ok"
        /\ id \in Logged
        /\ archive[id] = RemoteBytes(id)

RECURSIVE Sum(_)
Sum(seq) == IF seq = <<>> THEN 0 ELSE Head(seq) + Sum(Tail(seq))

\* what holds of every returned call of delete_photo: at most max_retries
\* calls of photo.delete(), none after the first that succeeds; True iff a
\* call succeeded (the photo is then gone from the remote), False after
\* max_retries failed calls; a sleep of 2^a after the failed attempt a that
\* another try follows
DeleteRetries ==
    /\ del_attempts <= max_retries
    /\ del_attempts = Min(del_k + 1, max_retries)
    /\ del_result = (del_k < max_retries)
    /\ del_result = (del_photo \notin remote)
    /\ ~del_result => del_attempts = max_retries
    /\ Len(del_sleeps) = del_attempts - 1
    /\ \A a \in 1..Len(del_sleeps) : del_sleeps[a] = Pow2(a)

\* C19: delete_photo(photo, max_retries), max_retries >= 1, calls the remote
\* delete at most max_retries times and stops at the first success, returns
\* True iff a call succeeded and False after max_retries failed calls, sleeps
\* 2^a seconds after the failed attempt a before the next try, and an item
\* that fails every attempt sleeps sum(2^1..2^max_retries) seconds in total.
C19_DeleteRetryBackoff ==
    del_pc = "returned"
        => /\ DeleteRetries
           /\ ~del_result => Sum(del_sleeps) = Sum(Backoffs(max_retries))

\* C19 amended: as above, but no sleep follows the last failed attempt: an
\* item that fails every attempt sleeps sum(2^1..2^(max_retries-1)) =
\* 2^max_retries - 2 seconds in total.
C19_NoSleepAfterLastAttempt ==
    del_pc = "returned"
        => /\ DeleteRetries
           /\ ~del_result
                 => /\ Sum(del_sleeps) = Sum(Backoffs(max_retries - 1))
                    /\ Sum(del_sleeps) = Pow2(max_retries) - 2

\* C19 witness: a call with max_retries >= 3 whose every attempt failed has
\* returned False after sleeping between the attempts
C19_Witness ==
    /\ del_pc = "returned"
    /\ ~del_result
    /\ max_retries >= 3
    /\ del_attempts = max_retries
    /\ Len(del_sleeps) = max_retries - 1

\* C20: in the download-then-delete workflow a deletion is attempted only
\* once every listed item has a download outcome, and only for an item whose
\* filename is in the completion log.
C20_DeleteOnlyDownloaded ==
    action = 3
        => \A id \in Ids :
              del_outcome[id] # "none"
                  => /\ \A j \in Range(photos) : dl_outcome[j] # "none"
                     /\ id \in Logged

====
